---- MODULE Spec2Model ----
(***************************************************************************)
(* fixmszip: locate the End Of Central Directory Record (EOCDR) of a zip   *)
(* file by a backward byte scan of a mapped trailing window and patch the  *)
(* "total number of disks" field of the Zip64 EOCD Locator from 0 to 1.    *)
(* The model follows src/fixmszip.c statement by statement: main's batch   *)
(* loop, fixup's system calls, and one action per iteration of the scan.   *)
(***************************************************************************)
EXTENDS Integers, Sequences, FiniteSets, TLC

(***************************************************************************)
(* Program constants.                                                      *)
(***************************************************************************)
EOCDR_BASE_SIZE == 22
Z64_EOCDL_SIZE == 20
SIG_LEN == 4
WINDOW_MAX == 65577
PageSize == 4096

(* An unsigned int is held as <<high 16 bits, low 16 bits>>.              *)
(* Z64_EOCDL_SIG is 0x07064b50; CD_ZIP64 is the 0xffffffff of line 167.   *)
Z64_EOCDL_SIG == <<1798, 19280>>
CD_ZIP64 == <<65535, 65535>>

(***************************************************************************)
(* Bounds of the input family.                                             *)
(***************************************************************************)
MaxArgs == 2
MaxBlank == 44
MaxComment == 1
PageOffIn == 100
PageOffOut == 4090

(***************************************************************************)
(* Files.  A file is its size and its bytes; bytes not listed are 0x00.    *)
(***************************************************************************)
ByteAt(f, o) == IF o \in DOMAIN f.bytes THEN f.bytes[o] ELSE 0

WriteByte(f, o, v) ==
    [f EXCEPT !.bytes = [x \in (DOMAIN f.bytes) \cup {o} |->
                            IF x = o THEN v ELSE f.bytes[x]]]

(* const unsigned char sig[] = {0x50,0x4b,0x05,0x06}, indexed from 0 *)
sig == <<80, 75, 5, 6>>

(***************************************************************************)
(* ByteReader.  b0 is the byte at ptr, b1 the byte at ptr+1, ...           *)
(***************************************************************************)
get2bytes(le, b0, b1) ==
    IF le = 1 THEN (b1 * 256 + b0) % 65536
              ELSE (b0 * 256 + b1) % 65536

get4bytes(le, b0, b1, b2, b3) ==
    IF le = 1 THEN <<(b3 * 256 + b2) % 65536, (b1 * 256 + b0) % 65536>>
              ELSE <<(b0 * 256 + b1) % 65536, (b2 * 256 + b3) % 65536>>

(***************************************************************************)
(* Input family.  An archive is                                            *)
(*    [outer EOCDL+EOCDR] ++ EOCDL ++ EOCDR ++ comment                     *)
(* where every field the program reads is drawn from a small set.          *)
(***************************************************************************)
Place(at, s) == [o \in at .. (at + Len(s) - 1) |-> s[o - at + 1]]

Zeros(n) == [k \in 1 .. n |-> 0]

Lo(v) == v % 256
Hi(v) == (v \div 256) % 256

(* the 20 bytes of a Zip64 EOCD Locator with total-disks bytes nd; z64     *)
(* picks the signature bytes: those of the format, or the same reversed    *)
LocatorBytes(z64, nd) ==
    (IF z64 = "ok" THEN <<80, 75, 6, 7>> ELSE <<7, 6, 75, 80>>)
    \o Zeros(12) \o nd

(* the 22 bytes of an EOCDR whose disk fields are dk, dk2 (2 bytes each),  *)
(* central-directory offset bytes cd (4) and comment-length value cl       *)
RecordBytes(dk, dk2, cd, cl) ==
    <<80, 75, 5, 6>> \o dk \o dk2 \o Zeros(8) \o cd \o <<Lo(cl), Hi(cl)>>

Z64Kinds == {"ok", "rev"}
NumDisks == {<<0, 0, 0, 0>>, <<1, 0, 0, 0>>, <<0, 1, 0, 0>>}
DiskPairs == {<<<<0, 0>>, <<0, 0>>>>, <<<<6, 0>>, <<6, 0>>>>, <<<<1, 0>>, <<0, 0>>>>}
CdOffsets == {<<255, 255, 255, 255>>, <<0, 0, 0, 0>>}

(* comments: zero bytes, or the image of a second EOCDR (signature and 18  *)
(* zero bytes) that ends at the end of file or one byte before it          *)
Comments ==
    [decoy : {FALSE}, len : 0 .. MaxComment]
    \cup [decoy : {TRUE}, len : {EOCDR_BASE_SIZE, EOCDR_BASE_SIZE + 1}]

CommentBytes(c) ==
    IF c.decoy THEN <<80, 75, 5, 6>> \o Zeros(c.len - 4) ELSE Zeros(c.len)

Archive(outer, z64, nd, dp, cd, clerr, c) ==
    LET base  == IF outer THEN Z64_EOCDL_SIZE + EOCDR_BASE_SIZE ELSE 0
        inner == LocatorBytes(z64, nd)
                 \o RecordBytes(dp[1], dp[2], cd, c.len + clerr)
                 \o CommentBytes(c)
        size  == base + Len(inner)
        head  == IF outer
                 THEN LocatorBytes("ok", <<0, 0, 0, 0>>)
                      \o RecordBytes(<<0, 0>>, <<0, 0>>, <<255, 255, 255, 255>>,
                                     Len(inner))
                 ELSE << >>
    IN  [size |-> size, bytes |-> Place(0, head \o inner)]

Archives ==
    { Archive(outer, z64, nd, dp, cd, clerr, c) :
        outer \in BOOLEAN, z64 \in Z64Kinds, nd \in NumDisks, dp \in DiskPairs,
        cd \in CdOffsets, clerr \in {0, 1}, c \in Comments }

(* files without any signature byte *)
Blanks == { [size |-> n, bytes |-> << >>] : n \in 0 .. MaxBlank }

(* an archive whose EOCDR fields between the signature and the comment are *)
(* all 0x06 (disk numbers 0x0606, comment length 0x0606), whose comment     *)
(* begins with the signature bytes, and which follows an outer record       *)
ChainArchive ==
    LET fill  == [k \in 1 .. 18 |-> 6]
        clen  == 6 + 256 * 6
        inner == <<80, 75, 5, 6>> \o fill \o <<80, 75, 5, 6>>
        size  == Z64_EOCDL_SIZE + EOCDR_BASE_SIZE + EOCDR_BASE_SIZE + clen
        head  == LocatorBytes("ok", <<0, 0, 0, 0>>)
                 \o RecordBytes(<<0, 0>>, <<0, 0>>, <<255, 255, 255, 255>>,
                                EOCDR_BASE_SIZE + clen)
    IN  [size |-> size, bytes |-> Place(0, head \o inner)]

(* files longer than WINDOW_MAX, whose window starts pageoff bytes after a  *)
(* page boundary: a locator and an EOCDR with central-directory offset     *)
(* bytes cd, followed by clen bytes of comment                             *)
LongArchive(pageoff, clen, cd) ==
    LET size == WINDOW_MAX + PageSize + pageoff
        c    == size - EOCDR_BASE_SIZE - clen
    IN  [size  |-> size,
         bytes |-> Place(c - Z64_EOCDL_SIZE,
                         LocatorBytes("ok", <<0, 0, 0, 0>>)
                         \o RecordBytes(<<0, 0>>, <<0, 0>>, cd, clen))]

(* a comment length whose two bytes are equal, 01 01 *)
EvenComment == 256 + 1

(* pageoff = PageOffIn: the end of file is inside the last mapped page;    *)
(* pageoff = PageOffOut: the end of file is beyond it.  Both are not Zip64 *)
LongArchives ==
    { LongArchive(PageOffIn, 0, <<0, 0, 0, 0>>),
      LongArchive(PageOffOut, EvenComment, <<0, 0, 0, 0>>) }

Files == Archives \cup Blanks \cup {ChainArchive} \cup LongArchives

(***************************************************************************)
(* State.                                                                  *)
(*   little_endian, nopatch, nops : set by main before its loop            *)
(*   file      : the operand's file (the mapping is MAP_SHARED: a store    *)
(*               through the mapping is a store to the file)               *)
(*   pc        : the statement main / fixup is at                          *)
(*   opi, problems, mres, exitcode : main's i - optind, problems, res      *)
(*   loc       : fixup's locals; ptr and minptr are offsets from fptr      *)
(*   nfds, nmaps : descriptors and mappings the process holds              *)
(*   before, ev, branch, msg, results : history of the current call (file  *)
(*               at entry, calls made, branch of the last iteration,       *)
(*               message printed) and the outcome of each operand so far   *)
(***************************************************************************)
VARIABLES little_endian, nopatch, nops, file, pc, opi, problems, mres,
          exitcode, loc, nfds, nmaps, before, ev, branch, msg, results

vars == <<little_endian, nopatch, nops, file, pc, opi, problems, mres,
          exitcode, loc, nfds, nmaps, before, ev, branch, msg, results>>

NoLoc == [fd |-> -1, mapped |-> FALSE, fsize |-> 0, offsize |-> 0,
          pageoff |-> 0, ptr |-> 0, minptr |-> 0, i |-> 0, res |-> 0]

(* at: file offset of the candidate the loop broke at; cands: the file    *)
(* offsets at which the whole signature matched                            *)
NoEv == [opens |-> 0, closes |-> 0, mmaps |-> 0, munmaps |-> 0,
         iters |-> 0, writes |-> 0, at |-> -1, cands |-> {}]

(* the size test of fixmszip.c:104, and the test off by one *)
TooSmallOffByOne(n) == n < EOCDR_BASE_SIZE - 1

TooSmall(n) == n < EOCDR_BASE_SIZE

(* the byte the patch stores to, *(ptr-4) = 1, and a store one byte lower *)
PatchTargetOffByOne(p) == p - 5

PatchTarget(p) == p - 4

(* the byte at offset p of the mapping established at file offset off *)
Mem(f, off, p) == ByteAt(f, off + p)

(* mmap maps whole pages: the mapping of l.fsize bytes ends at PagesEnd(l), *)
(* and up to there it shows the file                                       *)
PagesEnd(l) == ((l.fsize + PageSize - 1) \div PageSize) * PageSize

(* what a read beyond the mapping can yield when the address happens to be *)
(* mapped to something else                                                *)
Junk == {0, 6}

(* the values the read of sig[i] can yield: sig has SIG_LEN elements, and  *)
(* sig[SIG_LEN] is a read past the array, which may or may not equal b     *)
SigRead(i, b) ==
    IF i < SIG_LEN THEN {sig[i + 1]} ELSE {b, (b + 1) % 256}

(***************************************************************************)
(* One iteration of the scan loop (fixmszip.c:140-195) on the mapping of   *)
(* f at off, with locals l, dry-run flag dry and endianness le, when the   *)
(* read of sig[l.i] yields sv and a read beyond the mapping yields junk.    *)
(* brk: the iteration ended in break.                                      *)
(***************************************************************************)
LoopBody(f, le, dry, l, sv, junk) ==
    LET p    == l.ptr
        M(k) == IF p + k < PagesEnd(l) THEN Mem(f, l.offsize, p + k) ELSE junk
        comment_len == get2bytes(le, M(20), M(21))
        this_disk   == get2bytes(le, M(4), M(5))
        start_disk  == get2bytes(le, M(6), M(7))
        cd_offset   == get4bytes(le, M(16), M(17), M(18), M(19))
        z64sig      == get4bytes(le, M(0 - 20), M(0 - 19), M(0 - 18), M(0 - 17))
        numdisks    == get4bytes(le, M(0 - 4), M(0 - 3), M(0 - 2), M(0 - 1))
        same        == [i |-> l.i, res |-> l.res, file |-> f, brk |-> FALSE,
                        branch |-> "none"]
    IN  IF M(0) = sv
        THEN IF l.i = 0
             THEN IF p - l.pageoff + EOCDR_BASE_SIZE + comment_len # l.fsize
                  THEN [same EXCEPT !.i = SIG_LEN, !.branch = "badlen"]
                  ELSE IF this_disk # start_disk
                  THEN [same EXCEPT !.res = -1, !.brk = TRUE,
                                    !.branch = "notstart"]
                  ELSE IF cd_offset # CD_ZIP64
                  THEN [same EXCEPT !.brk = TRUE, !.branch = "notzip64"]
                  ELSE IF z64sig # Z64_EOCDL_SIG
                  THEN [same EXCEPT !.i = SIG_LEN, !.branch = "nolocator"]
                  ELSE IF numdisks = <<0, 0>>
                  THEN [same EXCEPT !.res = 1, !.brk = TRUE,
                           !.file = IF dry = 0
                                    THEN WriteByte(f, l.offsize + PatchTarget(p), 1)
                                    ELSE f,
                           !.branch = "patch"]
                  ELSE [same EXCEPT !.brk = TRUE, !.branch = "nonzero"]
             ELSE [same EXCEPT !.i = l.i - 1, !.branch = "partial"]
        ELSE [same EXCEPT !.i = 3, !.branch = "mismatch"]

(* fixmszip.c:113-121: the part of the file to map.  st_size is the size   *)
(* lstat reported; fsize becomes the length of the window.                 *)
WindowOf(l, st_size) ==
    IF st_size > WINDOW_MAX
    THEN LET off == st_size - WINDOW_MAX
             po  == off % PageSize
         IN  [l EXCEPT !.offsize = off - po, !.pageoff = po,
                       !.fsize = WINDOW_MAX]
    ELSE [l EXCEPT !.offsize = 0, !.pageoff = 0, !.fsize = st_size]

(* fixmszip.c:138-139: the initialisation of the for loop, and the same    *)
(* with the lower limit of the scan one byte lower                         *)
LoopInitLow(l) ==
    [l EXCEPT !.i = 3,
              !.ptr = l.fsize + l.pageoff - EOCDR_BASE_SIZE + 3,
              !.minptr = l.pageoff + Z64_EOCDL_SIZE - 1]

LoopInit(l) ==
    [l EXCEPT !.i = 3,
              !.ptr = l.fsize + l.pageoff - EOCDR_BASE_SIZE + 3,
              !.minptr = l.pageoff + Z64_EOCDL_SIZE]

(***************************************************************************)
(* main, before its loop: the host's byte order, the -n flag, the operands *)
(***************************************************************************)
Init ==
    /\ little_endian \in {0, 1}
    /\ nopatch \in {0, 1}
    /\ nops \in {1, MaxArgs}
    /\ file \in Files
    /\ pc = "loop"
    /\ opi = 0
    /\ problems = 0
    /\ mres = 0
    /\ exitcode = -1
    /\ loc = NoLoc
    /\ nfds = 0
    /\ nmaps = 0
    /\ before = file
    /\ ev = NoEv
    /\ branch = "none"
    /\ msg = "none"
    /\ results = << >>

(* return(r) from fixup after printing m ("none": nothing printed) *)
Return(r, m) ==
    /\ mres' = r
    /\ msg' = m
    /\ loc' = NoLoc
    /\ pc' = "ret"

(* main: the i++ of the for loop (fixmszip.c:226), and a step of two *)
NextOperandSkips(k) == k + 2

NextOperand(k) == k + 1

(* main: the loop test and access(argv[i], W_OK) *)
Access ==
    /\ pc = "loop"
    /\ opi < nops
    /\ \E ok \in BOOLEAN :
         IF ok
         THEN /\ pc' = "lstat"
              /\ loc' = NoLoc
              /\ before' = file
              /\ ev' = NoEv
              /\ branch' = "none"
              /\ msg' = "none"
              /\ UNCHANGED <<opi, problems, results>>
         ELSE /\ problems' = problems + 1
              /\ opi' = NextOperand(opi)
              /\ results' = Append(results, [pre |-> FALSE, res |-> -1])
              /\ pc' = "loop"
              /\ UNCHANGED <<loc, before, ev, branch, msg>>
    /\ UNCHANGED <<little_endian, nopatch, nops, file, mres, exitcode,
                   nfds, nmaps>>

(* main: the loop is over, exit(problems ? 1 : 0) *)
Exit ==
    /\ pc = "loop"
    /\ opi >= nops
    /\ exitcode' = IF problems # 0 THEN 1 ELSE 0
    /\ pc' = "done"
    /\ UNCHANGED <<little_endian, nopatch, nops, file, opi, problems, mres,
                   loc, nfds, nmaps, before, ev, branch, msg, results>>

(* main: the test (res = fixup(...)) < 0 of fixmszip.c:242, and the test     *)
(* with its bound one lower                                                *)
FixupFailedOffByOne(r) == r < -1

FixupFailed(r) == r < 0

(* main: res = fixup(...) has returned; count a problem, next operand *)
Collect ==
    /\ pc = "ret"
    /\ problems' = IF FixupFailed(mres) THEN problems + 1 ELSE problems
    /\ results' = Append(results, [pre |-> TRUE, res |-> mres])
    /\ opi' = NextOperand(opi)
    /\ pc' = "loop"
    /\ UNCHANGED <<little_endian, nopatch, nops, file, mres, exitcode, loc,
                   nfds, nmaps, before, ev, branch, msg>>

(* fixup: lstat(filename, &sbuf) *)
Lstat ==
    /\ pc = "lstat"
    /\ \E ok \in BOOLEAN :
         IF ok
         THEN /\ pc' = "size"
              /\ UNCHANGED <<mres, msg, loc>>
         ELSE Return(-1, "stat")
    /\ UNCHANGED <<little_endian, nopatch, nops, file, opi, problems,
                   exitcode, nfds, nmaps, before, ev, branch, results>>

(* fixup: the size test and the choice of the window *)
Window ==
    /\ pc = "size"
    /\ IF TooSmall(file.size)
       THEN Return(-1, "notzip")
       ELSE /\ loc' = WindowOf(loc, file.size)
            /\ pc' = "open"
            /\ UNCHANGED <<mres, msg>>
    /\ UNCHANGED <<little_endian, nopatch, nops, file, opi, problems,
                   exitcode, nfds, nmaps, before, ev, branch, results>>

(* fixup: open(filename, O_RDWR) *)
Open ==
    /\ pc = "open"
    /\ \E ok \in BOOLEAN :
         IF ok
         THEN /\ loc' = [loc EXCEPT !.fd = 3 + nfds]
              /\ nfds' = nfds + 1
              /\ ev' = [ev EXCEPT !.opens = @ + 1]
              /\ pc' = "mmap"
              /\ UNCHANGED <<mres, msg>>
         ELSE /\ Return(-1, "open")
              /\ UNCHANGED <<nfds, ev>>
    /\ UNCHANGED <<little_endian, nopatch, nops, file, opi, problems,
                   exitcode, nmaps, before, branch, results>>

(* fixup: mmap(NULL, fsize, PROT_READ|PROT_WRITE, MAP_SHARED, fd, offsize) *)
(* and, when it succeeds, the initialisation of the scan loop              *)
Mmap ==
    /\ pc = "mmap"
    /\ \E ok \in BOOLEAN :
         IF ok
         THEN /\ loc' = LoopInit([loc EXCEPT !.mapped = TRUE])
              /\ nmaps' = nmaps + 1
              /\ ev' = [ev EXCEPT !.mmaps = @ + 1]
              /\ pc' = "scan"
              /\ UNCHANGED <<mres, msg, nfds>>
         ELSE /\ nfds' = nfds - 1
              /\ ev' = [ev EXCEPT !.closes = @ + 1]
              /\ Return(-1, "mmap")
              /\ UNCHANGED nmaps
    /\ UNCHANGED <<little_endian, nopatch, nops, file, opi, problems,
                   exitcode, before, branch, results>>

(* the highest offset from fptr that the iteration at l.ptr reads: ptr+21  *)
(* (the comment length) when the signature is complete at ptr, else ptr    *)
Reach(f, l) ==
    IF l.i = 0 /\ l.ptr < PagesEnd(l) /\ Mem(f, l.offsize, l.ptr) = sig[1]
    THEN l.ptr + EOCDR_BASE_SIZE - 1
    ELSE l.ptr

(* the --ptr of the for loop (fixmszip.c:139), and a loop that stays *)
PtrStays(p) == p

PtrDown(p) == p - 1

(* the byte read at ptr *)
Scanned1(f, l, junk) ==
    IF l.ptr < PagesEnd(l) THEN Mem(f, l.offsize, l.ptr) ELSE junk

(* fixup: one iteration of the for loop, --ptr included *)
ScanStep ==
    /\ pc = "scan"
    /\ loc.ptr >= loc.minptr
    /\ \E junk \in (IF Reach(file, loc) < PagesEnd(loc) THEN {0} ELSE Junk) :
       \E sv \in SigRead(loc.i, Scanned1(file, loc, junk)) :
         LET r == LoopBody(file, little_endian, nopatch, loc, sv, junk)
         IN  /\ file' = r.file
             /\ branch' = r.branch
             /\ ev' = [ev EXCEPT
                        !.iters = @ + 1,
                        !.writes = IF r.file # file THEN @ + 1 ELSE @,
                        !.at = IF r.brk THEN loc.offsize + loc.ptr ELSE @,
                        !.cands = IF r.branch \in {"mismatch", "partial"}
                                  THEN @ ELSE @ \cup {loc.offsize + loc.ptr}]
             /\ msg' = IF r.branch = "notstart" THEN "notstart" ELSE msg
             /\ IF r.brk
                THEN /\ loc' = [loc EXCEPT !.i = r.i, !.res = r.res]
                     /\ pc' = "munmap"
                ELSE /\ loc' = [loc EXCEPT !.i = r.i, !.res = r.res,
                                           !.ptr = PtrDown(loc.ptr)]
                     /\ pc' = "scan"
    /\ UNCHANGED <<little_endian, nopatch, nops, opi, problems, mres,
                   exitcode, nfds, nmaps, before, results>>

(* fixup: an iteration reads beyond the last mapped page and the address   *)
(* is not mapped: SIGSEGV ends the process                                 *)
Fault ==
    /\ pc = "scan"
    /\ loc.ptr >= loc.minptr
    /\ Reach(file, loc) >= PagesEnd(loc)
    /\ pc' = "killed"
    /\ UNCHANGED <<little_endian, nopatch, nops, file, opi, problems, mres,
                   exitcode, loc, nfds, nmaps, before, ev, branch, msg,
                   results>>

(* fixup: the loop test fails, ptr < minptr *)
ScanExit ==
    /\ pc = "scan"
    /\ loc.ptr < loc.minptr
    /\ pc' = "munmap"
    /\ UNCHANGED <<little_endian, nopatch, nops, file, opi, problems, mres,
                   exitcode, loc, nfds, nmaps, before, ev, branch, msg,
                   results>>

(* fixup: return(res) without the munmap of line 197 *)
MunmapOmitted ==
    /\ pc = "munmap"
    /\ Return(loc.res, msg)
    /\ UNCHANGED <<little_endian, nopatch, nops, file, opi, problems,
                   exitcode, nfds, nmaps, before, ev, branch, results>>

(* fixup: munmap(fptr, fsize); return(res) *)
Munmap ==
    /\ pc = "munmap"
    /\ nmaps' = nmaps - 1
    /\ ev' = [ev EXCEPT !.munmaps = @ + 1]
    /\ Return(loc.res, msg)
    /\ UNCHANGED <<little_endian, nopatch, nops, file, opi, problems,
                   exitcode, nfds, before, branch, results>>

Next ==
    \/ Access
    \/ Exit
    \/ Collect
    \/ Lstat
    \/ Window
    \/ Open
    \/ Mmap
    \/ ScanStep
    \/ Fault
    \/ ScanExit
    \/ Munmap

Spec == Init /\ [][Next]_vars

(* The program run on one operand, with fairness: a process that can take  *)
(* a step takes one, the program being sequential and none of its calls    *)
(* blocking                                                                *)
InitOne == Init /\ nops = 1

FairSpec == InitOne /\ [][Next]_vars /\ WF_vars(Next)

(***************************************************************************)
(* The same program on archives whose comment has the greatest length the  *)
(* format allows, so that the EOCDR stands at the lower limit of the scan: *)
(* a file of exactly WINDOW_MAX bytes, and longer ones whose window starts *)
(* PageOffIn and PageOffOut bytes after a page boundary.                   *)
(***************************************************************************)
MaxCommentLen == WINDOW_MAX - EOCDR_BASE_SIZE - Z64_EOCDL_SIZE

FullWindowArchive ==
    [size  |-> WINDOW_MAX,
     bytes |-> Place(0, LocatorBytes("ok", <<0, 0, 0, 0>>)
                        \o RecordBytes(<<0, 0>>, <<0, 0>>,
                                       <<255, 255, 255, 255>>, MaxCommentLen))]

WindowFiles ==
    { FullWindowArchive,
      LongArchive(PageOffIn, MaxCommentLen, <<255, 255, 255, 255>>),
      LongArchive(PageOffOut, MaxCommentLen, <<255, 255, 255, 255>>) }

InitWindow ==
    /\ little_endian \in {0, 1}
    /\ nopatch = 0
    /\ nops = 1
    /\ file \in WindowFiles
    /\ pc = "loop"
    /\ opi = 0
    /\ problems = 0
    /\ mres = 0
    /\ exitcode = -1
    /\ loc = NoLoc
    /\ nfds = 0
    /\ nmaps = 0
    /\ before = file
    /\ ev = NoEv
    /\ branch = "none"
    /\ msg = "none"
    /\ results = << >>

SpecWindow == InitWindow /\ [][Next]_vars

(***************************************************************************)
(* Vocabulary of the properties: the zip fields of a file, read as the    *)
(* zip format defines them (little-endian), whatever the host.             *)
(***************************************************************************)
Field2(f, o) == ByteAt(f, o) + 256 * ByteAt(f, o + 1)
Field4(f, o) == <<Field2(f, o + 2), Field2(f, o)>>

(* the offsets whose content differs between two files *)
Diff(f, g) ==
    IF f = g
    THEN {}
    ELSE { o \in (DOMAIN f.bytes) \cup (DOMAIN g.bytes) :
             ByteAt(f, o) # ByteAt(g, o) }

SigAt(f, c) ==
    /\ ByteAt(f, c) = 80
    /\ ByteAt(f, c + 1) = 75
    /\ ByteAt(f, c + 2) = 5
    /\ ByteAt(f, c + 3) = 6

(* offsets at which a whole EOCDR fits behind room for a locator *)
Offsets(f) == Z64_EOCDL_SIZE .. (f.size - EOCDR_BASE_SIZE)

LengthValid(f, c) ==
    c + EOCDR_BASE_SIZE + Field2(f, c + 20) = f.size

(* the EOCDR of f: the signature nearest the end of file whose comment     *)
(* length reaches the end of file exactly                                  *)
IsEOCDR(f, c) ==
    /\ c \in Offsets(f)
    /\ SigAt(f, c)
    /\ LengthValid(f, c)
    /\ \A d \in Offsets(f) : d > c => ~(SigAt(f, d) /\ LengthValid(f, d))

SameDisk(f, c) == Field2(f, c + 4) = Field2(f, c + 6)

LocatorAt(f, c) == Field4(f, c - 20) = Z64_EOCDL_SIG

TotalDisks(f, c) == Field4(f, c - 4)

(* a well-formed Zip64 archive with its EOCDR at c *)
WellFormedZip64(f, c) ==
    /\ IsEOCDR(f, c)
    /\ SameDisk(f, c)
    /\ Field4(f, c + 16) = CD_ZIP64
    /\ LocatorAt(f, c)

(* the four bytes of the total-disks field of the locator before c *)
TotalDisksField(c) == IF c < 0 THEN {} ELSE (c - 4) .. (c - 1)

(* a call of fixup has returned, and it had mapped the file *)
Returned == pc = "ret"
Scanned == pc = "ret" /\ ev.mmaps = 1

(***************************************************************************)
(* C1.  For a well-formed Zip64 archive whose total-disks field reads 0, a *)
(* fixup without dry run returns Updated (1) and leaves the field reading  *)
(* 1, bytes [1,0,0,0].  Stated for a little-endian host and for the EOCDR  *)
(* nearest the end of file.                                                *)
(***************************************************************************)
C1_PatchesWellFormed ==
    (Scanned /\ nopatch = 0 /\ little_endian = 1) =>
        \A c \in Offsets(before) :
            (WellFormedZip64(before, c) /\ TotalDisks(before, c) = <<0, 0>>)
            => /\ mres = 1
               /\ ByteAt(file, c - 4) = 1
               /\ ByteAt(file, c - 3) = 0
               /\ ByteAt(file, c - 2) = 0
               /\ ByteAt(file, c - 1) = 0

(***************************************************************************)
(* C2.  A call of fixup changes no byte of the file other than bytes of    *)
(* the total-disks field (c-4 .. c-1) of the candidate c it accepted, and  *)
(* when it returns NoActionNeeded (0) or Failed (-1) the file is what it   *)
(* was when the call began.                                                *)
(***************************************************************************)
C2_OnlyTotalDisksChanges ==
    /\ file.size = before.size
    /\ Diff(before, file) \subseteq TotalDisksField(ev.at)
    /\ (Returned /\ mres # 1) => Diff(before, file) = {}

C2_Witness ==
    /\ Returned
    /\ mres = 1
    /\ ev.at > 0
    /\ Diff(before, file) = {ev.at - 4}

(***************************************************************************)
(* C3.  The file is written only if, at the candidate c examined, the      *)
(* comment length reaches the end of file, this_disk = start_disk, the     *)
(* central-directory offset is 0xFFFFFFFF, the bytes at c-20 are the Zip64 *)
(* locator signature, the total-disks field at c-4 reads 0, and dry run is *)
(* off.                                                                    *)
(***************************************************************************)
C3_WriteOnlyWhenPatchable ==
    Diff(before, file) # {} =>
        /\ nopatch = 0
        /\ ev.at \in Offsets(before)
        /\ SigAt(before, ev.at)
        /\ LengthValid(before, ev.at)
        /\ SameDisk(before, ev.at)
        /\ Field4(before, ev.at + 16) = CD_ZIP64
        /\ LocatorAt(before, ev.at)
        /\ TotalDisks(before, ev.at) = <<0, 0>>

(***************************************************************************)
(* C4.  With the dry-run flag set fixup changes no byte of the file, and   *)
(* on a patchable archive (well-formed Zip64, total-disks reading 0) it    *)
(* still returns Updated (1).  The second part is stated for a             *)
(* little-endian host.                                                     *)
(***************************************************************************)
C4_DryRun ==
    nopatch = 1 =>
        /\ Diff(before, file) = {}
        /\ (Scanned /\ little_endian = 1) =>
              \A c \in Offsets(before) :
                  (WellFormedZip64(before, c)
                      /\ TotalDisks(before, c) = <<0, 0>>) => mres = 1

(***************************************************************************)
(* C5.  On a well-formed Zip64 archive whose total-disks field is already  *)
(* nonzero fixup returns NoActionNeeded (0) and writes nothing.  Stated    *)
(* for a little-endian host.                                               *)
(***************************************************************************)
C5_Idempotent ==
    (Scanned /\ little_endian = 1) =>
        \A c \in Offsets(before) :
            (WellFormedZip64(before, c) /\ TotalDisks(before, c) # <<0, 0>>)
            => (mres = 0 /\ Diff(before, file) = {} /\ ev.writes = 0)

(***************************************************************************)
(* C6.  When the scan runs out of its range without breaking at any        *)
(* candidate, fixup returns Failed (-1), reported as not a zip file.       *)
(***************************************************************************)
C6_ExhaustedIsFailure ==
    (Scanned /\ ev.at = -1) => (mres = -1 /\ msg = "notzip")

(***************************************************************************)
(* C7.  For a non-Zip64 archive (its EOCDR has this_disk = start_disk and  *)
(* a central-directory offset other than 0xFFFFFFFF) fixup returns         *)
(* NoActionNeeded (0) and writes nothing, whatever bytes precede the       *)
(* EOCDR.  Stated for a little-endian host.                                *)
(***************************************************************************)
C7_NonZip64Untouched ==
    (Scanned /\ little_endian = 1) =>
        \A c \in Offsets(before) :
            (IsEOCDR(before, c) /\ SameDisk(before, c)
                /\ Field4(before, c + 16) # CD_ZIP64)
            => (mres = 0 /\ Diff(before, file) = {} /\ ev.writes = 0)

(***************************************************************************)
(* C8.  When the scan has matched the signature at a candidate c whose     *)
(* comment length reaches the end of file and whose this_disk differs from *)
(* start_disk, fixup returns Failed (-1) with "Not start disk", has        *)
(* stopped at c, and has written nothing.                                  *)
(***************************************************************************)
C8_NotStartDisk ==
    Scanned =>
        \A c \in ev.cands :
            (IsEOCDR(before, c) /\ ~SameDisk(before, c))
            => /\ mres = -1
               /\ msg = "notstart"
               /\ ev.at = c
               /\ Diff(before, file) = {}
               /\ ev.writes = 0

(***************************************************************************)
(* C9.  For a file shorter than 22 bytes fixup returns Failed (-1),        *)
(* reported as not a zip file (unless lstat itself failed, when the size   *)
(* is never known), writes nothing, and never opens, maps or scans it.     *)
(***************************************************************************)
C9_TooSmall ==
    (Returned /\ before.size < 22) =>
        /\ mres = -1
        /\ msg \in {"notzip", "stat"}
        /\ ev.opens = 0
        /\ ev.mmaps = 0
        /\ ev.iters = 0
        /\ ev.writes = 0
        /\ file = before

C9_Witness ==
    /\ Returned
    /\ before.size = 21
    /\ msg = "notzip"
    /\ mres = -1

(***************************************************************************)
(* fixup as a function of the file: the scan from locals l to its end, and *)
(* a whole call in which lstat, open and mmap succeed and every read is    *)
(* inside the mapping.  The read of sig[SIG_LEN] leaves i = 3 whatever it  *)
(* yields, so one value is taken.                                          *)
(***************************************************************************)
ScanState(f, l) == [file |-> f, l |-> l, done |-> FALSE, at |-> -1]

(* one iteration from scan state st, or none when the loop has ended *)
ScanOnce(le, dry, st) ==
    IF st.done \/ st.l.ptr < st.l.minptr
    THEN [st EXCEPT !.done = TRUE]
    ELSE LET b == Mem(st.file, st.l.offsize, st.l.ptr)
             r == LoopBody(st.file, le, dry, st.l,
                           CHOOSE sv \in SigRead(st.l.i, b) : TRUE, 0)
         IN  IF r.brk
             THEN [file |-> r.file,
                   l    |-> [st.l EXCEPT !.i = r.i, !.res = r.res],
                   done |-> TRUE,
                   at   |-> st.l.offsize + st.l.ptr]
             ELSE [file |-> r.file,
                   l    |-> [st.l EXCEPT !.i = r.i, !.res = r.res,
                                         !.ptr = PtrDown(st.l.ptr)],
                   done |-> FALSE,
                   at   |-> -1]

(* n iterations from st, computed by halving n; once the loop has ended    *)
(* the remaining iterations do nothing                                     *)
RECURSIVE ScanTimes(_, _, _, _)
ScanTimes(le, dry, st, n) ==
    IF n = 0 THEN st
    ELSE IF n = 1 THEN ScanOnce(le, dry, st)
    ELSE LET half == ScanTimes(le, dry, st, n \div 2)
         IN  IF half.done THEN half
             ELSE ScanTimes(le, dry, half, n - (n \div 2))

FixupOf(f, le, dry) ==
    IF TooSmall(f.size)
    THEN [res |-> -1, file |-> f, at |-> -1]
    ELSE LET l0  == LoopInit(WindowOf(NoLoc, f.size))
             n   == IF l0.ptr < l0.minptr THEN 0 ELSE l0.ptr - l0.minptr + 1
             end == ScanTimes(le, dry, ScanState(f, l0), n)
         IN  [res |-> end.l.res, file |-> end.file, at |-> end.at]

(* f with the four bytes at p replaced by bytes that are no signature byte *)
Replaced(f, p) ==
    [f EXCEPT !.bytes = [x \in DOMAIN f.bytes |->
                            IF x \in p .. (p + 3) THEN 0 ELSE f.bytes[x]]]

(***************************************************************************)
(* C10.  When the comment of the archive's EOCDR (at c) contains the       *)
(* signature bytes at a position p whose implied comment length fails the  *)
(* cross-check, the scan does not stop at p, and fixup's result and write  *)
(* are those it has on the archive with the bytes at p replaced by         *)
(* non-signature bytes.  Stated for a little-endian host.                  *)
(***************************************************************************)
C10_CommentSignatureHarmless ==
    (Scanned /\ little_endian = 1) =>
        \A c \in Offsets(before) : IsEOCDR(before, c) =>
          \A p \in (c + EOCDR_BASE_SIZE) .. (before.size - EOCDR_BASE_SIZE) :
            SigAt(before, p)
            => LET o == FixupOf(Replaced(before, p), little_endian, nopatch)
               IN  /\ ev.at # p
                   /\ mres = o.res
                   /\ Diff(before, file) = Diff(Replaced(before, p), o.file)

(***************************************************************************)
(* C11.  When main exits, every operand has an outcome, the exit code is 0 *)
(* exactly when every operand passed the writability pre-check and its     *)
(* fixup returned Updated (1) or NoActionNeeded (0), and the exit code is  *)
(* 1 when some operand failed the pre-check or its fixup returned Failed.  *)
(***************************************************************************)
Succeeded(r) == r.pre /\ r.res \in {0, 1}

C11_ExitCode ==
    pc = "done" =>
        /\ Len(results) = nops
        /\ exitcode \in {0, 1}
        /\ exitcode = 0 <=> \A k \in 1 .. Len(results) : Succeeded(results[k])
        /\ (\E k \in 1 .. Len(results) :
               ~results[k].pre \/ results[k].res = -1) => exitcode = 1

C11_Witness ==
    /\ pc = "done"
    /\ exitcode = 1
    /\ Len(results) = MaxArgs
    /\ results[1] = [pre |-> TRUE, res |-> 1]
    /\ results[MaxArgs] = [pre |-> TRUE, res |-> -1]

(***************************************************************************)
(* C12.  Whatever the endianness mode, each field read of an iteration     *)
(* that matched the whole signature at c yields the little-endian value of *)
(* the bytes read: get2bytes gives b0 + 256*b1 for the comment length      *)
(* (c+20) and the disk numbers (c+4, c+6), get4bytes gives                 *)
(* b0 + 256*b1 + 65536*b2 + 16777216*b3 for the central-directory offset   *)
(* (c+16), the locator signature (c-20) and the total-disks field (c-4).   *)
(***************************************************************************)
MatchBranches ==
    {"badlen", "notstart", "notzip64", "nolocator", "patch", "nonzero"}

(* the file offset of the candidate of the last iteration *)
LastCand == IF ev.at # -1 THEN ev.at ELSE loc.offsize + loc.ptr + 1

Read2(f, o) == get2bytes(little_endian, ByteAt(f, o), ByteAt(f, o + 1))

Read4(f, o) ==
    get4bytes(little_endian, ByteAt(f, o), ByteAt(f, o + 1),
              ByteAt(f, o + 2), ByteAt(f, o + 3))

C12_ByteReaderLittleEndian ==
    (pc \in {"scan", "munmap"} /\ branch \in MatchBranches) =>
        LET c == LastCand
        IN  /\ Read2(before, c + 20) = Field2(before, c + 20)
            /\ branch # "badlen" =>
                  /\ Read2(before, c + 4) = Field2(before, c + 4)
                  /\ Read2(before, c + 6) = Field2(before, c + 6)
            /\ branch \notin {"badlen", "notstart"} =>
                  Read4(before, c + 16) = Field4(before, c + 16)
            /\ branch \in {"nolocator", "patch", "nonzero"} =>
                  Read4(before, c - 20) = Field4(before, c - 20)
            /\ branch \in {"patch", "nonzero"} =>
                  Read4(before, c - 4) = Field4(before, c - 4)

(* the same on a little-endian host only *)
C12_OnLittleEndianHost == little_endian = 1 => C12_ByteReaderLittleEndian

(***************************************************************************)
(* C13.  When a call that scanned returns, every offset c of the scan      *)
(* range that holds the bytes 50 4b 05 06 and that the scan reached (it    *)
(* ran out of its range, or stopped at a candidate not above c) was        *)
(* recognised as a full match: the iteration at c ran the checks of a      *)
(* candidate.                                                              *)
(***************************************************************************)
(* the file offsets at which the scan can match the whole signature *)
ScanRange(f) ==
    LET w == WindowOf(NoLoc, f.size)
    IN  (w.offsize + w.pageoff + Z64_EOCDL_SIZE) .. (f.size - EOCDR_BASE_SIZE)

C13_OverlapComplete ==
    Scanned =>
        \A c \in ScanRange(before) :
            (SigAt(before, c) /\ (ev.at = -1 \/ c >= ev.at))
            => c \in ev.cands

(***************************************************************************)
(* C14.  At every iteration of the scan loop the index i with which the    *)
(* scanned byte is compared against sig is one of 0..3, an element of the  *)
(* four-byte signature array, the iteration after a rejected candidate     *)
(* included.                                                               *)
(***************************************************************************)
C14_IndexInSignature ==
    (pc = "scan" /\ loc.ptr >= loc.minptr) => loc.i \in 0 .. (SIG_LEN - 1)

(* the index is never outside 0..SIG_LEN *)
C14_IndexAtMostLen == pc = "scan" => loc.i \in 0 .. SIG_LEN

(***************************************************************************)
(* C15.  While the file is mapped, the range asked of mmap,                *)
(* [offsize, offsize + fsize) with fsize = min(file size, 65577), contains *)
(* the trailing fsize bytes of the file, and every byte the loop reads or  *)
(* writes lies inside it: the byte compared at ptr, and at a full match at *)
(* ptr the fields from ptr-20 up to ptr+21.                                *)
(***************************************************************************)
(* the offsets from fptr that the range asked of mmap covers *)
InRange(l, p) == 0 <= p /\ p < l.fsize

(* the loop is about to run the iteration at loc.ptr *)
AtIteration == pc = "scan" /\ loc.ptr >= loc.minptr

C15_WindowMapped ==
    (pc \in {"scan", "munmap"}) =>
        /\ loc.fsize = IF file.size < WINDOW_MAX THEN file.size ELSE WINDOW_MAX
        /\ loc.offsize <= file.size - loc.fsize
        /\ loc.offsize + loc.fsize >= file.size
        /\ AtIteration => InRange(loc, loc.ptr)
        /\ (AtIteration /\ Reach(file, loc) > loc.ptr) =>
              /\ InRange(loc, loc.ptr - Z64_EOCDL_SIZE)
              /\ InRange(loc, loc.ptr + EOCDR_BASE_SIZE - 1)

(* the same for the windows that start on a page boundary *)
C15_WhenAligned == loc.pageoff = 0 => C15_WindowMapped

(* every byte read or written is inside the whole pages of the mapping *)
C15_InsidePages == AtIteration => Reach(file, loc) < PagesEnd(loc)

(***************************************************************************)
(* C16.  Every iteration of the scan is at a file offset between           *)
(* window_start + 20 and file_size - 19, window_start being file_size -    *)
(* min(file_size, 65577), and every offset c at which the whole signature  *)
(* matched has window_start + 20 <= c <= file_size - 22: the fields at     *)
(* c-20 .. c+21 are bytes of the trailing window and of the file.  An      *)
(* EOCDR followed by a comment of 65535 bytes, at c = window_start + 20,   *)
(* is inside the scan range (witness).                                     *)
(***************************************************************************)
WindowStart(f) == f.size - (IF f.size < WINDOW_MAX THEN f.size ELSE WINDOW_MAX)

C16_CandidatesInWindow ==
    /\ AtIteration =>
          /\ loc.offsize + loc.ptr >= WindowStart(before) + Z64_EOCDL_SIZE
          /\ loc.offsize + loc.ptr <= before.size - EOCDR_BASE_SIZE + 3
    /\ \A c \in ev.cands :
          /\ c \in ScanRange(before)
          /\ WindowStart(before) + Z64_EOCDL_SIZE <= c
          /\ c <= before.size - EOCDR_BASE_SIZE
          /\ c - Z64_EOCDL_SIZE >= WindowStart(before)
          /\ c + EOCDR_BASE_SIZE - 1 < before.size

C16_Witness ==
    /\ Scanned
    /\ before.size > WINDOW_MAX
    /\ Field2(before, ev.at + 20) = MaxCommentLen
    /\ ev.at = WindowStart(before) + Z64_EOCDL_SIZE
    /\ ev.at \in ev.cands
    /\ mres = 1

(***************************************************************************)
(* C17.  Whenever no call of fixup is running (a call has returned, main   *)
(* is between operands, or main has exited) the process holds the file     *)
(* descriptors and mappings it held before the batch, none: every          *)
(* descriptor opened by a finished call has been closed and every mapping  *)
(* released.                                                               *)
(***************************************************************************)
C17_NothingHeld ==
    pc \in {"ret", "loop", "done"} =>
        /\ nfds = 0
        /\ nmaps = 0
        /\ pc = "ret" => (ev.closes = ev.opens /\ ev.munmaps = ev.mmaps)

(* the mappings alone *)
C17_NoMappingHeld == pc \in {"ret", "loop", "done"} => nmaps = 0

(***************************************************************************)
(* C18.  A call of fixup that mapped the file has released the mapping     *)
(* exactly once when it returns, whatever it returns (Updated,             *)
(* NoActionNeeded, Not start disk, scan exhausted); a call that returns    *)
(* without having mapped (lstat failed, file too small, open failed, mmap  *)
(* failed) has attempted no release; and the file is only written while    *)
(* the mapping is held and not yet released.                               *)
(***************************************************************************)
C18_AtReturn ==
    /\ ev.mmaps \in {0, 1}
    /\ ev.munmaps <= ev.mmaps
    /\ nmaps = ev.mmaps - ev.munmaps
    /\ Returned =>
          /\ ev.munmaps = ev.mmaps
          /\ msg \in {"stat", "notzip", "open", "mmap"} =>
                ev.mmaps = 0 /\ ev.munmaps = 0
          /\ msg \in {"none", "notstart"} => ev.mmaps = 1

C18_WriteWhileMapped ==
    file' # file => (pc = "scan" /\ nmaps = 1 /\ ev.munmaps = 0
                      /\ ev'.munmaps = 0 /\ nmaps' = 1)

C18_ReleasedOnce == [](C18_AtReturn) /\ [][C18_WriteWhileMapped]_vars

C18_Witness ==
    /\ Returned
    /\ mres = 1
    /\ ev.writes = 1
    /\ ev.mmaps = 1
    /\ ev.munmaps = 1
    /\ nmaps = 0

(***************************************************************************)
(* C19.  The batch loop takes the operands one at a time and in order:     *)
(* the outcomes recorded so far are those of operands 1..opi, each step    *)
(* adds at most the outcome of the next operand, main exits only when      *)
(* every operand has its outcome, whatever the earlier outcomes were, and  *)
(* an operand's outcome comes from a call of fixup exactly when its        *)
(* writability pre-check succeeded.                                        *)
(***************************************************************************)
InFixup == pc \in {"lstat", "size", "open", "mmap", "scan", "munmap", "ret"}

C19_Progress ==
    /\ Len(results) = opi
    /\ opi <= nops
    /\ InFixup => opi < nops
    /\ pc = "done" => opi = nops

C19_OneAtATime ==
    /\ opi' \in {opi, opi + 1}
    /\ Len(results') = opi'
    /\ SubSeq(results', 1, opi) = results
    /\ (InFixup' /\ ~InFixup) => (pc = "loop" /\ pc' = "lstat" /\ opi < nops)
    /\ opi' = opi + 1 =>
          /\ pc \in {"loop", "ret"}
          /\ pc' = "loop"
          /\ results'[opi'].pre <=> pc = "ret"
    /\ (pc' = "done" /\ pc # "done") => opi = nops

C19_BatchLoop == [](C19_Progress) /\ [][C19_OneAtATime]_vars

C19_Witness ==
    /\ pc = "done"
    /\ Len(results) = MaxArgs
    /\ results[1] = [pre |-> FALSE, res |-> -1]
    /\ results[MaxArgs] = [pre |-> TRUE, res |-> 1]

(***************************************************************************)
(* C20.  Every call of fixup ends.  Each iteration of the scan that does   *)
(* not end the loop lowers the scan position by one byte, the iterations   *)
(* done and the positions left always add up to the fsize - 38 positions   *)
(* of the range (fsize - 19 down to 20 from the start of the window; none  *)
(* when fsize < 39), so the scan ends after at most fsize - 38 iterations, *)
(* by a break at a candidate, by passing the lower limit, or by the fault  *)
(* of a read beyond the mapping; and a call that has begun returns or the  *)
(* process is killed by that fault.                                        *)
(***************************************************************************)
WindowLen(f) == IF f.size < WINDOW_MAX THEN f.size ELSE WINDOW_MAX

(* the number of positions of the scan range of a window of n bytes *)
ScanSteps(n) ==
    LET d == n - (EOCDR_BASE_SIZE - SIG_LEN) - Z64_EOCDL_SIZE
    IN  IF d < 0 THEN 0 ELSE d

PositionsLeft ==
    IF loc.ptr < loc.minptr THEN 0 ELSE loc.ptr - loc.minptr + 1

C20_Measure ==
    /\ ev.iters <= ScanSteps(WindowLen(before))
    /\ pc = "scan" =>
          ev.iters + PositionsLeft = ScanSteps(WindowLen(before))

C20_Decreases ==
    pc = "scan" =>
        \/ /\ pc' = "scan"
           /\ loc'.ptr = loc.ptr - 1
           /\ ev'.iters = ev.iters + 1
        \/ pc' = "munmap" /\ ev'.at # -1 /\ ev'.iters = ev.iters + 1
        \/ pc' = "munmap" /\ loc.ptr < loc.minptr /\ ev' = ev
        \/ pc' = "killed" /\ Reach(file, loc) >= PagesEnd(loc)

C20_Terminates ==
    /\ [](C20_Measure)
    /\ [][C20_Decreases]_vars
    /\ (pc = "lstat") ~> (pc \in {"ret", "killed"})
    /\ (pc = "scan") ~> (pc \in {"munmap", "killed"})

(* a scan that ran over its whole range: fsize - 38 iterations *)
C20_Witness ==
    /\ Scanned
    /\ ev.at = -1
    /\ before.size > EOCDR_BASE_SIZE + Z64_EOCDL_SIZE
    /\ ev.iters = ScanSteps(before.size)

(* the statement with the count fsize - 41 and the two ends of the scan *)
C20_AtMostLen41 ==
    /\ ev.iters <= (IF WindowLen(before) < 41 THEN 0 ELSE WindowLen(before) - 41)
    /\ pc # "killed"

====
